---- MODULE Spec2Model ----
(* Model of the dynamic tool selection system: the tool registry           *)
(* (registry.ts), the tool_embeddings table and its similarity query       *)
(* (database.ts), the embedding model handle (embedding.ts), the per-turn  *)
(* handler handlePrompt (agent.ts) and the interactive main loop.          *)
EXTENDS Integers, Sequences, FiniteSets, TLC

VARIABLES
    pc,              \* position of main / of the running handlePrompt
    exitCode,        \* process.exit code once pc = "exited", -1 before
    embeddingModel,  \* embedding.ts `embeddingModel`: TRUE when a model is held
    pool,            \* database.ts `pool`: TRUE when a Pool is held
    registry,        \* ToolRegistry.tools: tool id -> content version, 0 = no entry
    table,           \* tool_embeddings: tool id -> row, NoRec = no row
    clock,           \* CURRENT_TIMESTAMP of the store, advanced by each write
    setupIdx,        \* setupAllTools: index of the next demo tool
    pastTools,       \* the session's accumulated tools (main's `pastTools`)
    prompt,          \* userPrompt of the current / last findRelevantTools call
    topK,            \* topK argument of that call
    threshold,       \* similarityThreshold argument of that call (in SimUnit-ths)
    queryEmbedding,  \* embedding of the prompt, 0 = none
    tools,           \* rows returned by the last findRelevantTools call
    relevantTools,   \* toolRegistry.getMultiple(...) of the current turn
    agentTools,      \* tools handed to the Agent built by createDynamicAgent
    turnOutcome,     \* "none" | "running" | "ok" | "failed"
    failedAt,        \* step at which the last failed call threw, "" = none
    turnStartTools,  \* history: pastTools when the current turn started
    seenLog,         \* history: ids of relevantTools of every turn, concatenated
    turnNo,          \* number of turns started
    line,            \* kind of the last line the loop read: "" | "exit" | "blank" | "query"
    callTool,        \* tool argument of the last register call, Undefined = none
    callIds,         \* toolIds argument of the last getMultiple call
    tableBefore,     \* history: the table when the running registerToolInDatabase call began
    provider,        \* what the embedding provider did in the last generateEmbedding call
    embedError,      \* error the last generateEmbedding call threw, "" = it returned
    queryIssued,     \* the last findRelevantTools call has sent its SELECT to the store
    databaseUrl,     \* process.env.DATABASE_URL is set (after dotenv.config())
    startupDone,     \* history: the startup calls of main that have returned, in order
    lineText,        \* number of the last line the loop read in LineTable, 0 = none
    config,          \* config.ts `config`: the search settings read from the environment
    procs,           \* overlapping calls: caller -> its position and locals, <<>> = none
    loads,           \* number of FlagEmbedding.init calls started so far
    modelInstance    \* number of the load whose model embeddingModel holds, 0 = none

vars == <<pc, exitCode, embeddingModel, pool, registry, table, clock, setupIdx,
          pastTools, prompt, topK, threshold, queryEmbedding, tools,
          relevantTools, agentTools, turnOutcome, failedAt, turnStartTools,
          seenLog, turnNo, line, callTool, callIds, tableBefore,
          provider, embedError, queryIssued, databaseUrl, startupDone, lineText,
          config, procs, loads, modelInstance>>

----------------------------------------------------------------------------
(* Bounds *)

NumTools == 3
NumVers == 2
MaxTurns == 3
MaxTopK == 2
MaxLen == 2
MaxWrites == 3

(* Program constants *)

DefaultTopK == 3
\* SEARCH_SIMILARITY_THRESHOLD '0.6', in units of 1/SimUnit (SimUnit = 25)
DefaultSimilarityThreshold == 15

\* createConfig() with SEARCH_TOP_K and SEARCH_SIMILARITY_THRESHOLD unset.
DefaultConfig == [defaultTopK |-> DefaultTopK,
                  defaultSimilarityThreshold |-> DefaultSimilarityThreshold]

\* The values of SEARCH_TOP_K the model runs main under: a setting of 1 and
\* the unset variable.
TopKSettings == {1, DefaultTopK}

\* createConfig() under those environments.
Configs == {[defaultTopK |-> k,
             defaultSimilarityThreshold |-> DefaultSimilarityThreshold] :
               k \in TopKSettings}

----------------------------------------------------------------------------
(* Tools *)

ToolIds == 1..NumTools
Versions == 1..NumVers

\* A ToolDefinition: its id and its content (name, description, keywords,
\* parameters, execute), abstracted to a version number.
Tool(i, v) == [id |-> i, ver |-> v]
AllTools == {Tool(i, v) : i \in ToolIds, v \in Versions}

\* demoTools: the static tool set; the highest id is a tool that an earlier
\* run registered in the persistent table and that is no longer in demoTools.
demoTools == [i \in 1..(NumTools - 1) |-> Tool(i, 1)]

----------------------------------------------------------------------------
(* Embeddings and cosine similarity *)

\* The vectors the embedding model produces. All have the same norm, so
\* the cosine of two of them is their dot product over SimUnit.
VecTable == << <<5, 0>>, <<4, 3>>, <<4, -3>>, <<3, 4>>, <<0, 5>> >>
NumVecs == Len(VecTable)
Vectors == {VecTable[i] : i \in 1..NumVecs}

Dot(u, v) == u[1] * v[1] + u[2] * v[2]
SimUnit == Dot(VecTable[1], VecTable[1])

\* Texts are numbered; the model maps a text to a vector, the same text
\* always to the same vector.
Prompts == 1..NumVecs
ModelEmbed(text) == VecTable[((text - 1) % NumVecs) + 1]

\* registerToolInDatabase's searchableText: name, description and keywords.
SearchableText(tool) == tool.id + tool.ver - 1

\* What the provider does during one generateEmbedding call: held = the
\* module holds a model when the call starts; init = FlagEmbedding.init
\* yields a model ("ok"), rejects ("threw") or yields none ("none"), "" =
\* not called; next = generator.next() yields a batch of one vector
\* ("vector"), an empty batch ("emptyBatch"), is done or has no value
\* ("done") or rejects ("threw"), "" = not called.
NoRun == [held |-> FALSE, init |-> "", next |-> ""]
InitResults == {"ok", "threw", "none"}
NextResults == {"vector", "emptyBatch", "done", "threw"}
ProviderRuns(held) ==
    IF held
    THEN {[held |-> TRUE, init |-> "", next |-> n] : n \in NextResults}
    ELSE {[held |-> FALSE, init |-> "ok", next |-> n] : n \in NextResults}
         \cup {[held |-> FALSE, init |-> i, next |-> ""] : i \in InitResults \ {"ok"}}

EmbeddingThrows(e, m) == [error |-> e, model |-> m, vector |-> <<0, 0>>]

\* A generateEmbedding that answers with a fixed vector when it has no
\* model or no batch.
GenerateEmbeddingFallback(run, text) ==
    IF ~run.held /\ run.init \in {"threw", "none"}
    THEN [error |-> "", model |-> FALSE, vector |-> VecTable[1]]
    ELSE IF run.next = "vector"
    THEN [error |-> "", model |-> TRUE, vector |-> ModelEmbed(text)]
    ELSE [error |-> "", model |-> TRUE, vector |-> VecTable[1]]

\* generateEmbedding(text): the lazy initializeEmbeddingModel, whose catch
\* rethrows; 'Embedding model not initialized'; 'Failed to generate
\* embedding'; 'Empty batch returned from embedding model'; otherwise the
\* first vector of the batch. model = a model is held after the call.
GenerateEmbedding(run, text) ==
    IF ~run.held /\ run.init = "threw" THEN EmbeddingThrows("init", FALSE)
    ELSE IF ~run.held /\ run.init = "none" THEN EmbeddingThrows("notInitialized", FALSE)
    ELSE IF run.next = "threw" THEN EmbeddingThrows("embed", TRUE)
    ELSE IF run.next = "done" THEN EmbeddingThrows("failed", TRUE)
    ELSE IF run.next = "emptyBatch" THEN EmbeddingThrows("emptyBatch", TRUE)
    ELSE [error |-> "", model |-> TRUE, vector |-> ModelEmbed(text)]

\* pgvector's `u <=> v` (cosine distance), in units of 1/SimUnit.
CosineDistance(u, v) == SimUnit - Dot(u, v)

\* The query's `1 - (embedding <=> $1::vector)`.
Similarity(u, v) == SimUnit - CosineDistance(u, v)

----------------------------------------------------------------------------
(* The tool_embeddings table *)

NoRec == [tool_name |-> 0, description |-> 0, keywords |-> 0, parameters |-> 0,
          tool_definition |-> 0, embedding |-> <<0, 0>>, created_at |-> -1]

\* The table before any INSERT.
EmptyTable == [i \in ToolIds |-> NoRec]

\* A row: the columns written from the tool's content (tool_name,
\* description, keywords, parameters, tool_definition), each as the
\* content version it was written from, the embedding column and
\* created_at. The row's key is its tool_id, which the table keeps UNIQUE.
Rec(v, e, t) == [tool_name |-> v, description |-> v, keywords |-> v, parameters |-> v,
                 tool_definition |-> v, embedding |-> e, created_at |-> t]

\* An upsert whose embedded text carries the time of the write.
UpsertStampedText(tbl, tool, e, now) ==
    [tbl EXCEPT ![tool.id] =
        IF tbl[tool.id] = NoRec
        THEN Rec(tool.ver, VecTable[((tool.id + tool.ver + now) % NumVecs) + 1], now)
        ELSE Rec(tool.ver, VecTable[((tool.id + tool.ver + now) % NumVecs) + 1],
                 tbl[tool.id].created_at)]

\* INSERT ... ON CONFLICT (tool_id) DO NOTHING.
UpsertDoNothing(tbl, tool, e, now) ==
    [tbl EXCEPT ![tool.id] =
        IF tbl[tool.id] = NoRec THEN Rec(tool.ver, e, now) ELSE tbl[tool.id]]

\* An upsert whose DO UPDATE leaves the embedding column out.
UpsertKeepsEmbedding(tbl, tool, e, now) ==
    [tbl EXCEPT ![tool.id] =
        IF tbl[tool.id] = NoRec
        THEN Rec(tool.ver, e, now)
        ELSE [tbl[tool.id] EXCEPT !.tool_name = tool.ver,
                                  !.description = tool.ver,
                                  !.keywords = tool.ver,
                                  !.parameters = tool.ver,
                                  !.tool_definition = tool.ver]]

\* INSERT ... ON CONFLICT (tool_id) DO UPDATE SET tool_name, description,
\* keywords, parameters, tool_definition, embedding; created_at is set by
\* its DEFAULT on the INSERT only.
Upsert(tbl, tool, e, now) ==
    [tbl EXCEPT ![tool.id] =
        IF tbl[tool.id] = NoRec
        THEN Rec(tool.ver, e, now)
        ELSE [tbl[tool.id] EXCEPT !.tool_name = tool.ver,
                                  !.description = tool.ver,
                                  !.keywords = tool.ver,
                                  !.parameters = tool.ver,
                                  !.tool_definition = tool.ver,
                                  !.embedding = e]]

\* Mutant: the WHERE clause compares with >=.
AboveThresholdInclusive(tbl, q, thr) ==
    {i \in ToolIds : tbl[i] # NoRec /\ Similarity(tbl[i].embedding, q) >= thr}

\* WHERE 1 - (embedding <=> $1::vector) > $2
AboveThreshold(tbl, q, thr) ==
    {i \in ToolIds : tbl[i] # NoRec /\ Similarity(tbl[i].embedding, q) > thr}

\* Mutant: ORDER BY similarity, ascending, in place of the distance.
OrderedBySimilarityAsc(tbl, q, S) ==
    {s \in [1..Cardinality(S) -> S] :
        /\ \A i, j \in 1..Cardinality(S) : i # j => s[i] # s[j]
        /\ \A i, j \in 1..Cardinality(S) :
              i < j => Similarity(tbl[s[i]].embedding, q)
                         <= Similarity(tbl[s[j]].embedding, q)}

\* ORDER BY embedding <=> $1::vector: every ordering of the ids of S by
\* ascending distance (rows at equal distance come in any order).
OrderedByDistance(tbl, q, S) ==
    {s \in [1..Cardinality(S) -> S] :
        /\ \A i, j \in 1..Cardinality(S) : i # j => s[i] # s[j]
        /\ \A i, j \in 1..Cardinality(S) :
              i < j => CosineDistance(tbl[s[i]].embedding, q)
                         <= CosineDistance(tbl[s[j]].embedding, q)}

Min(a, b) == IF a <= b THEN a ELSE b

\* A LIMIT that lets one more row through.
LimitOneMore(s, k) == SubSeq(s, 1, Min(k + 1, Len(s)))

\* LIMIT $3
Limit(s, k) == SubSeq(s, 1, Min(k, Len(s)))

\* result.rows.map(row => ({id: row.tool_id, similarity: row.similarity}))
Rows(tbl, q, s) ==
    [n \in 1..Len(s) |->
        [id |-> s[n], similarity |-> Similarity(tbl[s[n]].embedding, q)]]

\* The results the SELECT of findRelevantTools can return.
QueryResults(tbl, q, k, thr) ==
    {Rows(tbl, q, Limit(s, k)) :
        s \in OrderedByDistance(tbl, q, AboveThreshold(tbl, q, thr))}

Outcome(st, at, rows) == [status |-> st, at |-> at, rows |-> rows]

\* Mutant: a query that matches no row is reported as an error.
QueryOutcomesThrowOnEmpty(poolHeld, storeOk, tbl, q, k, thr) ==
    IF ~poolHeld
    THEN {Outcome("threw", "rows", <<>>)}
    ELSE IF ~storeOk
    THEN {Outcome("threw", "query", <<>>)}
    ELSE {IF r = <<>> THEN Outcome("threw", "rows", <<>>) ELSE Outcome("found", "", r) :
             r \in QueryResults(tbl, q, k, thr)}

\* findRelevantTools after the embedding: `await pool?.query(...)` is
\* undefined when pool is null, and `result!.rows` then throws a TypeError;
\* the store can reject the query; otherwise the rows are mapped.
QueryOutcomes(poolHeld, storeOk, tbl, q, k, thr) ==
    IF ~poolHeld
    THEN {Outcome("threw", "rows", <<>>)}
    ELSE IF ~storeOk
    THEN {Outcome("threw", "query", <<>>)}
    ELSE {Outcome("found", "", r) : r \in QueryResults(tbl, q, k, thr)}

----------------------------------------------------------------------------
(* ToolRegistry *)

Undefined == [id |-> 0, ver |-> 0]

\* A register that keeps the entry an id already has.
RegisterIfAbsent(reg, tool) ==
    IF reg[tool.id] = 0 THEN [reg EXCEPT ![tool.id] = tool.ver] ELSE reg

\* ToolRegistry.register: this.tools.set(tool.id, tool)
Register(reg, tool) == [reg EXCEPT ![tool.id] = tool.ver]

\* ToolRegistry.get
RegistryGet(reg, i) == IF reg[i] = 0 THEN Undefined ELSE Tool(i, reg[i])

\* A getMultiple that builds a descriptor for an id it does not hold.
GetMultipleFromIndex(reg, ids) ==
    [n \in 1..Len(ids) |-> IF reg[ids[n]] = 0 THEN Tool(ids[n], 1) ELSE Tool(ids[n], reg[ids[n]])]

\* A getMultiple without the filter: unknown ids yield undefined entries.
GetMultipleUnfiltered(reg, ids) ==
    [n \in 1..Len(ids) |-> IF reg[ids[n]] = 0 THEN Undefined ELSE Tool(ids[n], reg[ids[n]])]

\* ToolRegistry.getMultiple: toolIds.map(get).filter(tool => tool !== undefined)
GetMultiple(reg, ids) ==
    SelectSeq([n \in 1..Len(ids) |-> RegistryGet(reg, ids[n])],
              LAMBDA t : t # Undefined)

----------------------------------------------------------------------------
(* handlePrompt's merge: [...new Map([...pastTools, ...relevantTools]      *)
(*                          .map(t => [t.id, t])).values()]               *)

\* A JavaScript Map as the sequence of its entries <<key, value>> in
\* insertion order.
MapIndex(m, k) == CHOOSE n \in 1..Len(m) : m[n][1] = k
MapHas(m, k) == \E n \in 1..Len(m) : m[n][1] = k

\* Mutant: set() of an existing key deletes the entry and appends it again.
MapSetMoveToEnd(m, k, v) ==
    Append(SelectSeq(m, LAMBDA e : e[1] # k), <<k, v>>)

\* Mutant: set() of an existing key leaves the stored value alone.
MapSetKeepFirst(m, k, v) ==
    IF MapHas(m, k) THEN m ELSE Append(m, <<k, v>>)

\* Map.prototype.set: an existing key keeps its position and takes the new
\* value; a new key is appended.
MapSet(m, k, v) ==
    IF MapHas(m, k)
    THEN [m EXCEPT ![MapIndex(m, k)] = <<k, v>>]
    ELSE Append(m, <<k, v>>)

\* new Map(entries): set() of every entry in order.
RECURSIVE MapFromEntries(_)
MapFromEntries(es) ==
    IF es = <<>>
    THEN <<>>
    ELSE LET init == MapFromEntries(SubSeq(es, 1, Len(es) - 1))
             last == es[Len(es)]
         IN  MapSet(init, last[1], last[2])

\* [...map.values()]
MapValues(m) == [n \in 1..Len(m) |-> m[n][2]]

\* Mutant: the two arrays are concatenated without the Map.
MergeToolsConcat(previous, incoming) == previous \o incoming

\* Mutant: the Map is keyed by the whole tool, not by its id.
MergeToolsByContent(previous, incoming) ==
    LET all == previous \o incoming
    IN  MapValues(MapFromEntries([n \in 1..Len(all) |-> <<all[n], all[n]>>]))

\* Mutant: only the tools of this turn are kept.
MergeToolsReplace(previous, incoming) ==
    MapValues(MapFromEntries([n \in 1..Len(incoming) |->
                                 <<incoming[n].id, incoming[n]>>]))

MergeToolsIncomingFirst(previous, incoming) ==
    MapValues(MapFromEntries([n \in 1..Len(incoming \o previous) |->
                                 <<(incoming \o previous)[n].id, (incoming \o previous)[n]>>]))

MergeTools(previous, incoming) ==
    LET all == previous \o incoming
    IN  MapValues(MapFromEntries([n \in 1..Len(all) |-> <<all[n].id, all[n]>>]))

\* tools.map(t => t.id)
Ids(ts) == [n \in 1..Len(ts) |-> ts[n].id]

----------------------------------------------------------------------------
(* The process: main of the entry point, with handlePrompt's steps *)

\* Tables an earlier run of the process can have left in the store.
PriorRow(i, v) == Rec(v, ModelEmbed(SearchableText(Tool(i, v))), 0)
PriorTables ==
    {t \in [ToolIds -> {NoRec} \cup {PriorRow(i, v) : i \in ToolIds, v \in Versions}] :
        \A i \in ToolIds : t[i] = NoRec \/ \E v \in Versions : t[i] = PriorRow(i, v)}

NoTools == [i \in ToolIds |-> 0]

Init ==
    /\ pc = "load"
    /\ exitCode = -1
    /\ embeddingModel = FALSE
    /\ pool = FALSE
    /\ registry = NoTools
    /\ table \in PriorTables
    /\ clock = 1
    /\ setupIdx = 1
    /\ pastTools = <<>>
    /\ prompt = 0
    /\ topK = 0
    /\ threshold = 0
    /\ queryEmbedding = <<0, 0>>
    /\ tools = <<>>
    /\ relevantTools = <<>>
    /\ agentTools = <<>>
    /\ turnOutcome = "none"
    /\ failedAt = ""
    /\ turnStartTools = <<>>
    /\ seenLog = <<>>
    /\ turnNo = 0
    /\ line = ""
    /\ callTool = Undefined
    /\ callIds = <<>>
    /\ tableBefore = EmptyTable
    /\ provider = NoRun
    /\ embedError = ""
    /\ queryIssued = FALSE
    /\ databaseUrl \in BOOLEAN
    /\ startupDone = <<>>
    /\ lineText = 0
    /\ config \in Configs
    /\ procs = <<>>
    /\ loads = 0
    /\ modelInstance = 0

\* process.exit(code)
Exit(code) == pc' = "exited" /\ exitCode' = code

turnVars == <<prompt, topK, threshold, queryEmbedding, tools, relevantTools,
              agentTools, turnOutcome, turnStartTools, seenLog, turnNo, line>>

regVars == <<callTool, callIds, tableBefore>>

embVars == <<provider, embedError, queryIssued>>

mainVars == <<databaseUrl, startupDone, lineText>>

otherVars == <<config, procs, loads, modelInstance>>

\* A startup call throws: main's catch logs and calls process.exit(1).
StartupFails(step) ==
    /\ failedAt' = step
    /\ Exit(1)
    /\ UNCHANGED startupDone

\* A startup call of main returns.
StartupReturns(step) ==
    /\ startupDone' = Append(startupDone, step)
    /\ UNCHANGED <<failedAt, exitCode>>

\* A configuration that does not validate the environment.
LoadConfigUnvalidated ==
    /\ pc = "load"
    /\ pc' = "initEmbedding"
    /\ UNCHANGED <<failedAt, exitCode>>
    /\ UNCHANGED <<embeddingModel, pool, registry, table, clock, setupIdx, pastTools>>
    /\ UNCHANGED turnVars
    /\ UNCHANGED regVars
    /\ UNCHANGED embVars
    /\ UNCHANGED mainVars
    /\ UNCHANGED otherVars

\* Loading the modules: config.ts runs createConfig() when it is first
\* imported, and validateEnvironment throws when DATABASE_URL is missing;
\* the throw is uncaught and ends the process before main is called.
LoadConfig ==
    /\ pc = "load"
    /\ IF databaseUrl
       THEN pc' = "initEmbedding" /\ UNCHANGED <<failedAt, exitCode>>
       ELSE failedAt' = "config" /\ Exit(1)
    /\ UNCHANGED <<embeddingModel, pool, registry, table, clock, setupIdx, pastTools>>
    /\ UNCHANGED turnVars
    /\ UNCHANGED regVars
    /\ UNCHANGED embVars
    /\ UNCHANGED mainVars
    /\ UNCHANGED otherVars

\* main: await initializeEmbeddingModel(); FlagEmbedding.init is awaited
\* when no model is held, and its throw is rethrown and reaches main's catch.
InitializeEmbeddingModel ==
    /\ pc = "initEmbedding"
    /\ \E r \in IF embeddingModel THEN {""} ELSE InitResults :
          IF r = "threw"
          THEN embeddingModel' = embeddingModel /\ StartupFails("initializeEmbeddingModel")
          ELSE /\ embeddingModel' = (embeddingModel \/ r = "ok")
               /\ pc' = "initDatabase"
               /\ StartupReturns("initializeEmbeddingModel")
    /\ UNCHANGED <<pool, registry, table, clock, setupIdx, pastTools>>
    /\ UNCHANGED turnVars
    /\ UNCHANGED regVars
    /\ UNCHANGED embVars
    /\ UNCHANGED <<databaseUrl, lineText>>
    /\ UNCHANGED otherVars

\* A main that logs a failed initDatabase and goes on.
InitDatabaseLogsAndContinues ==
    /\ pc = "initDatabase"
    /\ pool' = TRUE
    /\ \E ok \in BOOLEAN :
          IF ok
          THEN pc' = "setup" /\ StartupReturns("initDatabase")
          ELSE /\ pc' = "setup"
               /\ failedAt' = "initDatabase"
               /\ UNCHANGED <<exitCode, startupDone>>
    /\ UNCHANGED <<embeddingModel, registry, table, clock, setupIdx, pastTools>>
    /\ UNCHANGED turnVars
    /\ UNCHANGED regVars
    /\ UNCHANGED embVars
    /\ UNCHANGED <<databaseUrl, lineText>>
    /\ UNCHANGED otherVars

\* main: await initDatabase(); the pool is created, then connect and the
\* CREATE statements can fail.
InitDatabase ==
    /\ pc = "initDatabase"
    /\ pool' = TRUE
    /\ \E ok \in BOOLEAN :
          IF ok
          THEN pc' = "setup" /\ StartupReturns("initDatabase")
          ELSE StartupFails("initDatabase")
    /\ UNCHANGED <<embeddingModel, registry, table, clock, setupIdx, pastTools>>
    /\ UNCHANGED turnVars
    /\ UNCHANGED regVars
    /\ UNCHANGED embVars
    /\ UNCHANGED <<databaseUrl, lineText>>
    /\ UNCHANGED otherVars

\* One iteration of setupAllTools: registerTool(tool) = register in the
\* registry, then registerToolInDatabase (embedding, then the upsert).
SetupTool ==
    /\ pc = "setup"
    /\ setupIdx <= Len(demoTools)
    /\ LET tool == demoTools[setupIdx]
       IN  /\ registry' = Register(registry, tool)
           /\ \E run \in ProviderRuns(embeddingModel), writeOk \in BOOLEAN :
                 LET g == GenerateEmbedding(run, SearchableText(tool))
                 IN
                 /\ provider' = run
                 /\ embedError' = g.error
                 /\ embeddingModel' = g.model
                 /\ IF g.error = "" /\ writeOk
                    THEN /\ table' = IF pool
                                     THEN Upsert(table, tool, g.vector, clock)
                                     ELSE table
                         /\ clock' = IF pool THEN clock + 1 ELSE clock
                         /\ setupIdx' = setupIdx + 1
                         /\ IF setupIdx = Len(demoTools)
                            THEN pc' = "prompt" /\ StartupReturns("setupAllTools")
                            ELSE pc' = "setup" /\ UNCHANGED <<failedAt, exitCode, startupDone>>
                    ELSE /\ StartupFails("setupAllTools")
                         /\ UNCHANGED <<table, clock, setupIdx>>
    /\ UNCHANGED <<pool, pastTools, queryIssued>>
    /\ UNCHANGED turnVars
    /\ UNCHANGED regVars
    /\ UNCHANGED <<databaseUrl, lineText>>
    /\ UNCHANGED otherVars

\* The lines typed at the prompt, as sequences of characters. Their
\* numbers are the texts' numbers: the embedding model sees line n as text n.
LineTable ==
    << <<"a">>,
       <<"b">>,
       <<" ", "c", " ">>,
       <<"e", "x", "i", "t", "s">>,
       <<"e", "x", " ", "i", "t">>,
       <<"e", "x", "i", "t">>,
       <<" ", "E", "X", "I", "T", "\t">>,
       <<"E", "x", "i", "t", " ", " ">>,
       <<>>,
       <<" ", "\t">> >>

Lines == 1..Len(LineTable)

\* String.prototype.trim: the white space at both ends goes.
IsWhiteSpace(c) == c \in {" ", "\t"}

RECURSIVE TrimStart(_)
TrimStart(s) ==
    IF s # <<>> /\ IsWhiteSpace(Head(s)) THEN TrimStart(Tail(s)) ELSE s

RECURSIVE TrimEnd(_)
TrimEnd(s) ==
    IF s # <<>> /\ IsWhiteSpace(s[Len(s)]) THEN TrimEnd(SubSeq(s, 1, Len(s) - 1)) ELSE s

\* A loop that compares the line as typed.
TrimNothing(s) == s

Trim(s) == TrimEnd(TrimStart(s))

\* String.prototype.toLowerCase on the letters the lines use.
LowerChar(c) ==
    CASE c = "E" -> "e"
      [] c = "X" -> "x"
      [] c = "I" -> "i"
      [] c = "T" -> "t"
      [] OTHER -> c

ToLowerCase(s) == [n \in 1..Len(s) |-> LowerChar(s[n])]

\* text.trim().toLowerCase() === 'exit'
IsExit(text) == ToLowerCase(Trim(text)) = <<"e", "x", "i", "t">>

\* if (text.trim()): the empty string is falsy.
IsTruthy(text) == Trim(text) # <<>>

\* The loop reads 'exit': break, then finally: process.exit(0).
ReadExit ==
    /\ pc = "prompt"
    /\ \E n \in Lines :
          /\ IsExit(LineTable[n])
          /\ lineText' = n
    /\ line' = "exit"
    /\ Exit(0)
    /\ UNCHANGED <<embeddingModel, pool, registry, table, clock, setupIdx, pastTools,
                   prompt, topK, threshold, queryEmbedding, tools, relevantTools,
                   agentTools, turnOutcome, failedAt, turnStartTools, seenLog, turnNo>>
    /\ UNCHANGED regVars
    /\ UNCHANGED embVars
    /\ UNCHANGED <<databaseUrl, startupDone>>
    /\ UNCHANGED otherVars

\* The loop reads a blank line: text.trim() is falsy, the loop prompts again.
ReadBlank ==
    /\ pc = "prompt"
    /\ \E n \in Lines :
          /\ ~IsExit(LineTable[n])
          /\ ~IsTruthy(LineTable[n])
          /\ lineText' = n
    /\ line' = "blank"
    /\ UNCHANGED <<pc, exitCode, embeddingModel, pool, registry, table, clock,
                   setupIdx, pastTools, prompt, topK, threshold, queryEmbedding,
                   tools, relevantTools, agentTools, turnOutcome, failedAt,
                   turnStartTools, seenLog, turnNo>>
    /\ UNCHANGED regVars
    /\ UNCHANGED embVars
    /\ UNCHANGED <<databaseUrl, startupDone>>
    /\ UNCHANGED otherVars

\* A loop that calls handlePrompt without awaiting it.
ReadQueryNotAwaited ==
    /\ pc \in {"prompt", "embed", "query", "merge", "agent", "generate"}
    /\ turnNo < MaxTurns
    /\ \E n \in Lines :
          /\ ~IsExit(LineTable[n])
          /\ IsTruthy(LineTable[n])
          /\ lineText' = n
          /\ prompt' = n
    /\ topK' = config.defaultTopK
    /\ threshold' = config.defaultSimilarityThreshold
    /\ turnStartTools' = pastTools
    /\ turnOutcome' = "running"
    /\ failedAt' = ""
    /\ turnNo' = turnNo + 1
    /\ pc' = "embed"
    /\ line' = "query"
    /\ UNCHANGED <<exitCode, embeddingModel, pool, registry, table, clock, setupIdx,
                   pastTools, queryEmbedding, tools, relevantTools, agentTools,
                   seenLog>>
    /\ UNCHANGED regVars
    /\ queryIssued' = FALSE
    /\ UNCHANGED <<provider, embedError>>
    /\ UNCHANGED <<databaseUrl, startupDone>>
    /\ UNCHANGED otherVars

\* The loop reads a query: handlePrompt(userID, text, pastTools, ...) starts
\* and awaits findRelevantTools(prompt, defaultTopK, defaultSimilarityThreshold).
ReadQuery ==
    /\ pc = "prompt"
    /\ turnNo < MaxTurns
    /\ \E n \in Lines :
          /\ ~IsExit(LineTable[n])
          /\ IsTruthy(LineTable[n])
          /\ lineText' = n
          /\ prompt' = n
    /\ topK' = config.defaultTopK
    /\ threshold' = config.defaultSimilarityThreshold
    /\ turnStartTools' = pastTools
    /\ turnOutcome' = "running"
    /\ failedAt' = ""
    /\ turnNo' = turnNo + 1
    /\ pc' = "embed"
    /\ line' = "query"
    /\ UNCHANGED <<exitCode, embeddingModel, pool, registry, table, clock, setupIdx,
                   pastTools, queryEmbedding, tools, relevantTools, agentTools,
                   seenLog>>
    /\ UNCHANGED regVars
    /\ queryIssued' = FALSE
    /\ UNCHANGED <<provider, embedError>>
    /\ UNCHANGED <<databaseUrl, startupDone>>
    /\ UNCHANGED otherVars

\* handlePrompt's catch rethrows; main's catch logs and calls process.exit(1).
TurnFails(step) ==
    /\ turnOutcome' = "failed"
    /\ failedAt' = step
    /\ Exit(1)

\* findRelevantTools: await generateEmbedding(userPrompt).
EmbedStep ==
    /\ pc = "embed"
    /\ \E run \in ProviderRuns(embeddingModel) :
          LET g == GenerateEmbedding(run, prompt)
          IN
          /\ provider' = run
          /\ embedError' = g.error
          /\ embeddingModel' = g.model
          /\ IF g.error = ""
             THEN /\ queryEmbedding' = g.vector
                  /\ pc' = "query"
                  /\ UNCHANGED <<exitCode, turnOutcome, failedAt>>
             ELSE /\ TurnFails("embedding")
                  /\ UNCHANGED queryEmbedding
    /\ UNCHANGED <<pool, registry, table, clock, setupIdx, pastTools, prompt, topK,
                   threshold, tools, relevantTools, agentTools, turnStartTools,
                   seenLog, turnNo, line>>
    /\ UNCHANGED regVars
    /\ UNCHANGED queryIssued
    /\ UNCHANGED mainVars
    /\ UNCHANGED otherVars

\* findRelevantTools: await pool?.query(SELECT ...), then result!.rows.map.
QueryStep ==
    /\ pc = "query"
    /\ \E storeOk \in BOOLEAN :
          \E o \in QueryOutcomes(pool, storeOk, table, queryEmbedding, topK, threshold) :
             IF o.status = "found"
             THEN /\ tools' = o.rows
                  /\ pc' = "merge"
                  /\ UNCHANGED <<exitCode, turnOutcome, failedAt>>
             ELSE /\ TurnFails(o.at)
                  /\ UNCHANGED tools
    /\ UNCHANGED <<embeddingModel, pool, registry, table, clock, setupIdx, pastTools,
                   prompt, topK, threshold, queryEmbedding, relevantTools,
                   agentTools, turnStartTools, seenLog, turnNo, line>>
    /\ UNCHANGED regVars
    /\ queryIssued' = pool
    /\ UNCHANGED <<provider, embedError>>
    /\ UNCHANGED mainVars
    /\ UNCHANGED otherVars

\* A turn that enters the rows it found for unregistered ids into the registry.
MergeStepHydratesRegistry ==
    /\ pc = "merge"
    /\ relevantTools' = GetMultiple(registry, Ids(tools))
    /\ pastTools' = MergeTools(pastTools, relevantTools')
    /\ seenLog' = seenLog \o Ids(relevantTools')
    /\ registry' = [i \in ToolIds |->
                       IF registry[i] = 0 /\ \E n \in 1..Len(tools) : tools[n].id = i
                       THEN table[i].tool_name
                       ELSE registry[i]]
    /\ pc' = "agent"
    /\ UNCHANGED <<exitCode, embeddingModel, pool, table, clock, setupIdx,
                   prompt, topK, threshold, queryEmbedding, tools, agentTools,
                   turnOutcome, failedAt, turnStartTools, turnNo, line>>
    /\ UNCHANGED regVars
    /\ UNCHANGED embVars
    /\ UNCHANGED mainVars
    /\ UNCHANGED otherVars

\* handlePrompt lines 53-62: getMultiple, the merge, the splice that
\* replaces the whole content of pastTools, and the call of
\* createDynamicAgent up to its await.
MergeStep ==
    /\ pc = "merge"
    /\ relevantTools' = GetMultiple(registry, Ids(tools))
    /\ pastTools' = MergeTools(pastTools, relevantTools')
    /\ seenLog' = seenLog \o Ids(relevantTools')
    /\ pc' = "agent"
    /\ UNCHANGED <<exitCode, embeddingModel, pool, registry, table, clock, setupIdx,
                   prompt, topK, threshold, queryEmbedding, tools, agentTools,
                   turnOutcome, failedAt, turnStartTools, turnNo, line>>
    /\ UNCHANGED regVars
    /\ UNCHANGED embVars
    /\ UNCHANGED mainVars
    /\ UNCHANGED otherVars

\* A turn that builds the agent from this turn's selection only.
AgentStepRelevantOnly ==
    /\ pc = "agent"
    /\ \E ok \in BOOLEAN :
          IF ok
          THEN /\ agentTools' = relevantTools
               /\ pc' = "generate"
               /\ UNCHANGED <<exitCode, turnOutcome, failedAt>>
          ELSE /\ TurnFails("agent")
               /\ UNCHANGED agentTools
    /\ UNCHANGED <<embeddingModel, pool, registry, table, clock, setupIdx, pastTools,
                   prompt, topK, threshold, queryEmbedding, tools, relevantTools,
                   turnStartTools, seenLog, turnNo, line>>
    /\ UNCHANGED regVars
    /\ UNCHANGED embVars
    /\ UNCHANGED mainVars
    /\ UNCHANGED otherVars

\* createDynamicAgent(pastTools) returns the Agent or throws.
AgentStep ==
    /\ pc = "agent"
    /\ \E ok \in BOOLEAN :
          IF ok
          THEN /\ agentTools' = pastTools
               /\ pc' = "generate"
               /\ UNCHANGED <<exitCode, turnOutcome, failedAt>>
          ELSE /\ TurnFails("agent")
               /\ UNCHANGED agentTools
    /\ UNCHANGED <<embeddingModel, pool, registry, table, clock, setupIdx, pastTools,
                   prompt, topK, threshold, queryEmbedding, tools, relevantTools,
                   turnStartTools, seenLog, turnNo, line>>
    /\ UNCHANGED regVars
    /\ UNCHANGED embVars
    /\ UNCHANGED mainVars
    /\ UNCHANGED otherVars

\* await agent.generate(prompt, ...) returns or throws.
GenerateStep ==
    /\ pc = "generate"
    /\ \E ok \in BOOLEAN :
          IF ok
          THEN /\ turnOutcome' = "ok"
               /\ pc' = "prompt"
               /\ UNCHANGED <<exitCode, failedAt>>
          ELSE TurnFails("generate")
    /\ UNCHANGED <<embeddingModel, pool, registry, table, clock, setupIdx, pastTools,
                   prompt, topK, threshold, queryEmbedding, tools, relevantTools,
                   agentTools, turnStartTools, seenLog, turnNo, line>>
    /\ UNCHANGED regVars
    /\ UNCHANGED embVars
    /\ UNCHANGED mainVars
    /\ UNCHANGED otherVars

Next ==
    \/ LoadConfig
    \/ InitializeEmbeddingModel
    \/ InitDatabase
    \/ SetupTool
    \/ ReadExit
    \/ ReadBlank
    \/ ReadQuery
    \/ EmbedStep
    \/ QueryStep
    \/ MergeStep
    \/ AgentStep
    \/ GenerateStep

Spec == Init /\ [][Next]_vars

----------------------------------------------------------------------------
(* The merge of handlePrompt applied to arbitrary inputs *)

BoundedSeq(S, n) == UNION {[1..m -> S] : m \in 0..n}

MergeInit ==
    /\ pc = "mergeCall"
    /\ exitCode = -1
    /\ embeddingModel = FALSE
    /\ pool = FALSE
    /\ registry = NoTools
    /\ table = [i \in ToolIds |-> NoRec]
    /\ clock = 1
    /\ setupIdx = 1
    /\ pastTools \in BoundedSeq(AllTools, MaxLen)
    /\ prompt = 0
    /\ topK = 0
    /\ threshold = 0
    /\ queryEmbedding = <<0, 0>>
    /\ tools = <<>>
    /\ relevantTools \in BoundedSeq(AllTools, MaxLen)
    /\ agentTools = <<>>
    /\ turnOutcome = "none"
    /\ failedAt = ""
    /\ turnStartTools = pastTools
    /\ seenLog = <<>>
    /\ turnNo = 0
    /\ line = ""
    /\ callTool = Undefined
    /\ callIds = <<>>
    /\ tableBefore = EmptyTable
    /\ provider = NoRun
    /\ embedError = ""
    /\ queryIssued = FALSE
    /\ databaseUrl = TRUE
    /\ startupDone = <<>>
    /\ lineText = 0
    /\ config = DefaultConfig
    /\ procs = <<>>
    /\ loads = 0
    /\ modelInstance = 0

\* handlePrompt lines 54-60 on previous = pastTools, incoming = relevantTools.
MergeCall ==
    /\ pc = "mergeCall"
    /\ pastTools' = MergeTools(pastTools, relevantTools)
    /\ pc' = "merged"
    /\ UNCHANGED <<exitCode, embeddingModel, pool, registry, table, clock, setupIdx,
                   prompt, topK, threshold, queryEmbedding, tools, relevantTools,
                   agentTools, turnOutcome, failedAt, turnStartTools, seenLog,
                   turnNo, line>>
    /\ UNCHANGED regVars
    /\ UNCHANGED embVars
    /\ UNCHANGED mainVars
    /\ UNCHANGED otherVars

MergeNext == MergeCall

MergeSpec == MergeInit /\ [][MergeNext]_vars

----------------------------------------------------------------------------
(* The exported functions of database.ts called one after another *)

Thresholds == {DefaultSimilarityThreshold, Similarity(VecTable[1], VecTable[2])}

QueryInit ==
    /\ pc = "idle"
    /\ exitCode = -1
    /\ embeddingModel = FALSE
    /\ pool = FALSE
    /\ registry = NoTools
    /\ table = [i \in ToolIds |-> NoRec]
    /\ clock = 1
    /\ setupIdx = 1
    /\ pastTools = <<>>
    /\ prompt = 0
    /\ topK = 0
    /\ threshold = 0
    /\ queryEmbedding = <<0, 0>>
    /\ tools = <<>>
    /\ relevantTools = <<>>
    /\ agentTools = <<>>
    /\ turnOutcome = "none"
    /\ failedAt = ""
    /\ turnStartTools = <<>>
    /\ seenLog = <<>>
    /\ turnNo = 0
    /\ line = ""
    /\ callTool = Undefined
    /\ callIds = <<>>
    /\ tableBefore = EmptyTable
    /\ provider = NoRun
    /\ embedError = ""
    /\ queryIssued = FALSE
    /\ databaseUrl = TRUE
    /\ startupDone = <<>>
    /\ lineText = 0
    /\ config = DefaultConfig
    /\ procs = <<>>
    /\ loads = 0
    /\ modelInstance = 0

sessionVars == <<exitCode, registry, setupIdx, pastTools, relevantTools, agentTools,
                 turnOutcome, turnStartTools, seenLog, turnNo, line>>

\* No findRelevantTools call is running or has just ended.
NoQuery ==
    /\ prompt' = 0
    /\ topK' = 0
    /\ threshold' = 0
    /\ queryEmbedding' = <<0, 0>>
    /\ tools' = <<>>

\* initDatabase(): creates the pool when there is none, then connects and
\* creates the extension, the table and the index; each of these can throw.
CallInitDatabase ==
    /\ pc = "idle"
    /\ pool' = TRUE
    /\ \E ok \in BOOLEAN :
          /\ pc' = IF ok THEN "returned" ELSE "threw"
          /\ failedAt' = IF ok THEN "" ELSE "initDatabase"
    /\ NoQuery
    /\ UNCHANGED <<embeddingModel, table, clock>>
    /\ UNCHANGED sessionVars
    /\ UNCHANGED regVars
    /\ UNCHANGED embVars
    /\ UNCHANGED mainVars
    /\ UNCHANGED otherVars

\* registerToolInDatabase(tool): generateEmbedding(searchableText), then
\* await pool?.query(INSERT ... ON CONFLICT ...), which is skipped when
\* pool is null.
CallRegisterToolInDatabase ==
    /\ pc = "idle"
    /\ clock <= MaxWrites
    /\ \E tool \in AllTools, run \in ProviderRuns(embeddingModel), storeOk \in BOOLEAN :
          LET g == GenerateEmbedding(run, SearchableText(tool))
          IN
          /\ callTool' = tool
          /\ tableBefore' = table
          /\ provider' = run
          /\ embedError' = g.error
          /\ embeddingModel' = g.model
          /\ IF g.error # ""
             THEN /\ pc' = "threw"
                  /\ failedAt' = "embedding"
                  /\ UNCHANGED <<table, clock>>
             ELSE IF ~pool
             THEN /\ pc' = "returned"
                  /\ failedAt' = ""
                  /\ UNCHANGED <<table, clock>>
             ELSE IF ~storeOk
             THEN /\ pc' = "threw"
                  /\ failedAt' = "upsert"
                  /\ UNCHANGED <<table, clock>>
             ELSE /\ pc' = "returned"
                  /\ failedAt' = ""
                  /\ table' = Upsert(table, tool, g.vector, clock)
                  /\ clock' = clock + 1
    /\ NoQuery
    /\ UNCHANGED pool
    /\ UNCHANGED sessionVars
    /\ UNCHANGED callIds
    /\ UNCHANGED queryIssued
    /\ UNCHANGED mainVars
    /\ UNCHANGED otherVars

\* findRelevantTools(userPrompt, topK, similarityThreshold), start to end.
CallFindRelevantTools ==
    /\ pc = "idle"
    /\ \E p \in Prompts, k \in 1..MaxTopK, thr \in Thresholds :
          /\ prompt' = p
          /\ topK' = k
          /\ threshold' = thr
    /\ \E run \in ProviderRuns(embeddingModel), storeOk \in BOOLEAN :
          LET g == GenerateEmbedding(run, prompt')
          IN
          /\ provider' = run
          /\ embedError' = g.error
          /\ embeddingModel' = g.model
          /\ queryIssued' = (g.error = "" /\ pool)
          /\ IF g.error # ""
             THEN /\ pc' = "threw"
                  /\ failedAt' = "embedding"
                  /\ queryEmbedding' = <<0, 0>>
                  /\ tools' = <<>>
             ELSE /\ queryEmbedding' = g.vector
                  /\ \E o \in QueryOutcomes(pool, storeOk, table, queryEmbedding',
                                            topK', threshold') :
                        /\ pc' = o.status
                        /\ failedAt' = o.at
                        /\ tools' = o.rows
    /\ UNCHANGED <<pool, table, clock>>
    /\ UNCHANGED sessionVars
    /\ UNCHANGED regVars
    /\ UNCHANGED mainVars
    /\ UNCHANGED otherVars

\* The call is over, whether it returned or threw; the caller goes on and
\* the locals of the call are gone.
CallReturned ==
    /\ pc \in {"found", "returned", "threw"}
    /\ pc' = "idle"
    /\ failedAt' = ""
    /\ NoQuery
    /\ callTool' = Undefined
    /\ tableBefore' = EmptyTable
    /\ UNCHANGED <<embeddingModel, pool, table, clock>>
    /\ UNCHANGED sessionVars
    /\ UNCHANGED callIds
    /\ provider' = NoRun
    /\ embedError' = ""
    /\ queryIssued' = FALSE
    /\ UNCHANGED mainVars
    /\ UNCHANGED otherVars

\* closeDatabase(): ends the pool and forgets it.
CallCloseDatabase ==
    /\ pc = "idle"
    /\ pool
    /\ pool' = FALSE
    /\ pc' = "returned"
    /\ failedAt' = ""
    /\ NoQuery
    /\ UNCHANGED <<embeddingModel, table, clock>>
    /\ UNCHANGED sessionVars
    /\ UNCHANGED regVars
    /\ UNCHANGED embVars
    /\ UNCHANGED mainVars
    /\ UNCHANGED otherVars

\* closeEmbeddingModel(): forgets the model when one is held.
CallCloseEmbeddingModel ==
    /\ pc = "idle"
    /\ embeddingModel
    /\ embeddingModel' = FALSE
    /\ pc' = "returned"
    /\ failedAt' = ""
    /\ NoQuery
    /\ UNCHANGED <<pool, table, clock>>
    /\ UNCHANGED sessionVars
    /\ UNCHANGED regVars
    /\ UNCHANGED embVars
    /\ UNCHANGED mainVars
    /\ UNCHANGED otherVars

QueryNext ==
    \/ CallInitDatabase
    \/ CallCloseEmbeddingModel
    \/ CallRegisterToolInDatabase
    \/ CallFindRelevantTools
    \/ CallReturned
    \/ CallCloseDatabase

QuerySpec == QueryInit /\ [][QueryNext]_vars

----------------------------------------------------------------------------
(* The registry on its own: ToolRegistry.register and                      *)
(* ToolRegistry.getMultiple called one after another with any arguments    *)

MaxIds == 3

\* A fresh ToolRegistry: the tools Map is empty.
RegistryInit ==
    /\ QueryInit

\* toolRegistry.register(tool)
CallRegister ==
    /\ pc = "idle"
    /\ \E tool \in AllTools :
          /\ callTool' = tool
          /\ registry' = Register(registry, tool)
    /\ pc' = "returned"
    /\ UNCHANGED <<exitCode, embeddingModel, pool, table, clock, setupIdx, pastTools,
                   prompt, topK, threshold, queryEmbedding, tools, relevantTools,
                   agentTools, turnOutcome, failedAt, turnStartTools, seenLog,
                   turnNo, line, callIds, tableBefore>>
    /\ UNCHANGED embVars
    /\ UNCHANGED mainVars
    /\ UNCHANGED otherVars

\* toolRegistry.getMultiple(toolIds); the result is held in relevantTools
\* as handlePrompt holds it.
CallGetMultiple ==
    /\ pc = "idle"
    /\ \E ids \in BoundedSeq(ToolIds, MaxIds) :
          /\ callIds' = ids
          /\ relevantTools' = GetMultiple(registry, ids)
    /\ pc' = "got"
    /\ UNCHANGED <<exitCode, embeddingModel, pool, registry, table, clock, setupIdx,
                   pastTools, prompt, topK, threshold, queryEmbedding, tools,
                   agentTools, turnOutcome, failedAt, turnStartTools, seenLog,
                   turnNo, line, callTool, tableBefore>>
    /\ UNCHANGED embVars
    /\ UNCHANGED mainVars
    /\ UNCHANGED otherVars

\* The call is over and its argument and result are gone.
RegistryCallReturned ==
    /\ pc \in {"returned", "got"}
    /\ pc' = "idle"
    /\ callTool' = Undefined
    /\ callIds' = <<>>
    /\ relevantTools' = <<>>
    /\ UNCHANGED <<exitCode, embeddingModel, pool, registry, table, clock, setupIdx,
                   pastTools, prompt, topK, threshold, queryEmbedding, tools,
                   agentTools, turnOutcome, failedAt, turnStartTools, seenLog,
                   turnNo, line, tableBefore>>
    /\ UNCHANGED embVars
    /\ UNCHANGED mainVars
    /\ UNCHANGED otherVars

RegistryNext ==
    \/ CallRegister
    \/ CallGetMultiple
    \/ RegistryCallReturned

RegistrySpec == RegistryInit /\ [][RegistryNext]_vars

----------------------------------------------------------------------------
(* ToolService.registerTool called at any time: before initDatabase,       *)
(* between initDatabase and closeDatabase, and after closeDatabase         *)

\* toolService.registerTool(tool): toolRegistry.register(tool), then
\* await registerToolInDatabase(tool): generateEmbedding, then
\* await pool?.query(INSERT ...), which sends nothing when pool is null.
CallRegisterTool ==
    /\ pc = "idle"
    /\ clock <= MaxWrites
    /\ \E n \in 1..Len(demoTools), run \in ProviderRuns(embeddingModel),
          storeOk \in BOOLEAN :
          LET tool == demoTools[n]
              g == GenerateEmbedding(run, SearchableText(tool))
          IN
          /\ callTool' = tool
          /\ tableBefore' = table
          /\ registry' = Register(registry, tool)
          /\ provider' = run
          /\ embedError' = g.error
          /\ embeddingModel' = g.model
          /\ IF g.error # ""
             THEN /\ pc' = "threw"
                  /\ failedAt' = "embedding"
                  /\ UNCHANGED <<table, clock>>
             ELSE IF ~pool
             THEN /\ pc' = "returned"
                  /\ failedAt' = ""
                  /\ UNCHANGED <<table, clock>>
             ELSE IF ~storeOk
             THEN /\ pc' = "threw"
                  /\ failedAt' = "upsert"
                  /\ UNCHANGED <<table, clock>>
             ELSE /\ pc' = "returned"
                  /\ failedAt' = ""
                  /\ table' = Upsert(table, tool, g.vector, clock)
                  /\ clock' = clock + 1
    /\ NoQuery
    /\ UNCHANGED <<exitCode, pool, setupIdx, pastTools, relevantTools, agentTools,
                   turnOutcome, turnStartTools, seenLog, turnNo, line, callIds,
                   queryIssued>>
    /\ UNCHANGED mainVars
    /\ UNCHANGED otherVars

ServiceInit ==
    /\ QueryInit

ServiceNext ==
    \/ CallInitDatabase
    \/ CallCloseDatabase
    \/ CallRegisterTool
    \/ CallReturned

ServiceSpec == ServiceInit /\ [][ServiceNext]_vars

----------------------------------------------------------------------------
(* Overlapping calls. Every async function runs without interruption from  *)
(* one await to the next; a caller's record in procs holds where it waits. *)

NumProcs == 2
MaxLoads == 3

Procs == 1..NumProcs

\* What the harnesses of overlapping calls leave at its initial value.
ConcurrentBase ==
    /\ pc = "idle"
    /\ exitCode = -1
    /\ clock = 1
    /\ setupIdx = 1
    /\ prompt = 0
    /\ topK = 0
    /\ threshold = 0
    /\ queryEmbedding = <<0, 0>>
    /\ tools = <<>>
    /\ relevantTools = <<>>
    /\ agentTools = <<>>
    /\ turnOutcome = "none"
    /\ failedAt = ""
    /\ turnStartTools = <<>>
    /\ seenLog = <<>>
    /\ turnNo = 0
    /\ line = ""
    /\ callTool = Undefined
    /\ callIds = <<>>
    /\ provider = NoRun
    /\ embedError = ""
    /\ queryIssued = FALSE
    /\ databaseUrl = TRUE
    /\ startupDone = <<>>
    /\ lineText = 0
    /\ config = DefaultConfig

----------------------------------------------------------------------------
(* embedding.ts under overlapping calls of initializeEmbeddingModel and    *)
(* generateEmbedding                                                       *)

IdleCall == [pc |-> "idle", kind |-> "", load |-> 0]

\* An initialization that loads whether or not a model is held.
NeedsLoadAlways(held) == TRUE

\* if (!embeddingModel)
NeedsLoad(held) == ~held

EmbedInit ==
    /\ ConcurrentBase
    /\ embeddingModel = FALSE
    /\ modelInstance = 0
    /\ loads = 0
    /\ procs = [p \in Procs |-> IdleCall]
    /\ pool = FALSE
    /\ registry = NoTools
    /\ table = EmptyTable
    /\ tableBefore = EmptyTable
    /\ pastTools = <<>>

embedFrame == <<pc, exitCode, pool, registry, table, clock, setupIdx, pastTools,
                prompt, topK, threshold, queryEmbedding, tools, relevantTools,
                agentTools, turnOutcome, failedAt, turnStartTools, seenLog, turnNo,
                line, callTool, callIds, tableBefore, provider, embedError,
                queryIssued, databaseUrl, startupDone, lineText, config>>

\* initializeEmbeddingModel() or generateEmbedding(text) is called and runs
\* to its first await: FlagEmbedding.init when no model is held, otherwise
\* the return (initialize) or generator.next() (generate).
EmbedCall(p) ==
    /\ procs[p].pc = "idle"
    /\ \E kind \in {"initialize", "generate"} :
          IF NeedsLoad(embeddingModel)
          THEN /\ loads < MaxLoads
               /\ loads' = loads + 1
               /\ procs' = [procs EXCEPT ![p] =
                               [pc |-> "loading", kind |-> kind, load |-> loads + 1]]
          ELSE /\ loads' = loads
               /\ procs' = [procs EXCEPT ![p] =
                               [pc |-> IF kind = "initialize" THEN "done" ELSE "embedding",
                                kind |-> kind, load |-> 0]]
    /\ UNCHANGED <<embeddingModel, modelInstance>>
    /\ UNCHANGED embedFrame

\* The awaited FlagEmbedding.init settles: embeddingModel = <its result>,
\* or the rejection is rethrown. generateEmbedding then throws when no model
\* is held and goes on to generator.next() otherwise.
LoadSettles(p) ==
    /\ procs[p].pc = "loading"
    /\ \E r \in InitResults :
          IF r = "threw"
          THEN /\ procs' = [procs EXCEPT ![p].pc = "threw"]
               /\ UNCHANGED <<embeddingModel, modelInstance>>
          ELSE /\ embeddingModel' = (r = "ok")
               /\ modelInstance' = IF r = "ok" THEN procs[p].load ELSE 0
               /\ procs' = [procs EXCEPT ![p].pc =
                               IF procs[p].kind = "initialize" THEN "done"
                               ELSE IF r = "ok" THEN "embedding" ELSE "threw"]
    /\ UNCHANGED loads
    /\ UNCHANGED embedFrame

\* The awaited generator.next() settles.
EmbedSettles(p) ==
    /\ procs[p].pc = "embedding"
    /\ \E n \in NextResults :
          procs' = [procs EXCEPT ![p].pc = IF n = "vector" THEN "done" ELSE "threw"]
    /\ UNCHANGED <<embeddingModel, modelInstance, loads>>
    /\ UNCHANGED embedFrame

\* The caller has its result or its error.
EmbedCallEnds(p) ==
    /\ procs[p].pc \in {"done", "threw"}
    /\ procs' = [procs EXCEPT ![p] = IdleCall]
    /\ UNCHANGED <<embeddingModel, modelInstance, loads>>
    /\ UNCHANGED embedFrame

EmbedNext ==
    \E p \in Procs :
        \/ EmbedCall(p)
        \/ LoadSettles(p)
        \/ EmbedSettles(p)
        \/ EmbedCallEnds(p)

EmbedSpec == EmbedInit /\ [][EmbedNext]_vars

----------------------------------------------------------------------------
(* database.ts under overlapping calls of registerToolInDatabase and       *)
(* findRelevantTools: each caller makes one call                           *)

IdleStoreCall == [pc |-> "idle", kind |-> "", tool |-> Undefined,
                  embedding |-> <<0, 0>>, at |-> 0, seen |-> EmptyTable]

\* The table after setupTools has registered demoTools, the model held.
SetupTable ==
    [i \in ToolIds |->
        IF i \in DOMAIN demoTools
        THEN Rec(demoTools[i].ver, ModelEmbed(SearchableText(demoTools[i])), 0)
        ELSE NoRec]

\* A store in which a statement that fails has written the columns that
\* precede the embedding.
ExecuteUpsertPartly(tbl, tool, e, now, ok) ==
    IF ok THEN Upsert(tbl, tool, e, now)
    ELSE IF tbl[tool.id] = NoRec THEN tbl
    ELSE [tbl EXCEPT ![tool.id] =
             [tbl[tool.id] EXCEPT !.tool_name = tool.ver,
                                  !.description = tool.ver,
                                  !.keywords = tool.ver,
                                  !.parameters = tool.ver,
                                  !.tool_definition = tool.ver]]

\* The store executes the one INSERT ... ON CONFLICT statement of
\* registerToolInDatabase: all of it, or, when the statement fails, none.
ExecuteUpsert(tbl, tool, e, now, ok) ==
    IF ok THEN Upsert(tbl, tool, e, now) ELSE tbl

RaceInit ==
    /\ ConcurrentBase
    /\ embeddingModel = TRUE
    /\ modelInstance = 0
    /\ loads = 0
    /\ procs = [p \in Procs |-> IdleStoreCall]
    /\ pool = TRUE
    /\ registry = NoTools
    /\ table \in {EmptyTable, SetupTable}
    /\ tableBefore = table
    /\ pastTools = <<>>

raceFrame == <<pc, exitCode, embeddingModel, pool, registry, setupIdx, pastTools,
               prompt, topK, threshold, queryEmbedding, tools, relevantTools,
               agentTools, turnOutcome, failedAt, turnStartTools, seenLog, turnNo,
               line, callTool, callIds, provider, embedError, queryIssued,
               databaseUrl, startupDone, lineText, config, loads, modelInstance>>

\* registerToolInDatabase(tool) or findRelevantTools(prompt) is called and
\* runs to `await generateEmbedding(...)`.
StoreCall(p) ==
    /\ procs[p].pc = "idle"
    /\ \/ \E tool \in AllTools :
             procs' = [procs EXCEPT ![p] =
                          [IdleStoreCall EXCEPT !.pc = "embedding",
                                                !.kind = "register",
                                                !.tool = tool]]
       \/ procs' = [procs EXCEPT ![p] =
                       [IdleStoreCall EXCEPT !.pc = "embedding", !.kind = "find"]]
    /\ UNCHANGED <<table, clock, tableBefore>>
    /\ UNCHANGED raceFrame

\* generateEmbedding settles: the call throws, or it sends its statement
\* with the vector it got.
StoreEmbedSettles(p) ==
    /\ procs[p].pc = "embedding"
    /\ \E run \in ProviderRuns(embeddingModel) :
          LET g == GenerateEmbedding(run, IF procs[p].kind = "register"
                                          THEN SearchableText(procs[p].tool)
                                          ELSE 1)
          IN  procs' = [procs EXCEPT ![p] =
                           IF g.error # ""
                           THEN [procs[p] EXCEPT !.pc = "threwEmbedding"]
                           ELSE [procs[p] EXCEPT !.pc = "statement",
                                                 !.embedding = g.vector]]
    /\ UNCHANGED <<table, clock, tableBefore>>
    /\ UNCHANGED raceFrame

\* The store executes the caller's statement, the upsert or the SELECT, and
\* the awaited pool.query settles.
StoreExecutes(p) ==
    /\ procs[p].pc = "statement"
    /\ \E storeOk \in BOOLEAN :
          IF procs[p].kind = "register"
          THEN /\ table' = ExecuteUpsert(table, procs[p].tool, procs[p].embedding,
                                         clock, storeOk)
               /\ procs' = [procs EXCEPT ![p] =
                               [procs[p] EXCEPT !.pc = IF storeOk THEN "done"
                                                       ELSE "threwStore",
                                                !.at = clock]]
          ELSE /\ table' = table
               /\ procs' = [procs EXCEPT ![p] =
                               [procs[p] EXCEPT !.pc = IF storeOk THEN "done"
                                                       ELSE "threwStore",
                                                !.at = clock,
                                                !.seen = IF storeOk THEN table
                                                         ELSE EmptyTable]]
    /\ clock' = clock + 1
    /\ UNCHANGED tableBefore
    /\ UNCHANGED raceFrame

RaceNext ==
    \E p \in Procs :
        \/ StoreCall(p)
        \/ StoreEmbedSettles(p)
        \/ StoreExecutes(p)

RaceSpec == RaceInit /\ [][RaceNext]_vars

----------------------------------------------------------------------------
(* handlePrompt under overlapping calls that share one pastTools array:    *)
(* each caller makes one call                                              *)

\* atCall: the content of pastTools when the call was made (history).
IdleTurn == [pc |-> "idle", prompt |-> 0, atCall |-> <<>>, tools |-> <<>>,
             relevantTools |-> <<>>]

\* The registry after setupTools has registered demoTools.
SetupRegistry == [i \in ToolIds |-> IF i \in DOMAIN demoTools THEN demoTools[i].ver ELSE 0]

\* A merge that starts from the tools the session had when the call was made.
MergeBaseAtCall(current, atCall) == atCall

\* [...pastTools, ...]: the array is read when the merge runs, after the
\* awaited findRelevantTools has settled.
MergeBase(current, atCall) == current

OverlapInit ==
    /\ ConcurrentBase
    /\ embeddingModel = TRUE
    /\ modelInstance = 0
    /\ loads = 0
    /\ procs = [p \in Procs |-> IdleTurn]
    /\ pool = TRUE
    /\ registry = SetupRegistry
    /\ table = SetupTable
    /\ tableBefore = EmptyTable
    /\ pastTools = <<>>

overlapFrame == <<pc, exitCode, embeddingModel, pool, registry, table, clock, setupIdx,
                  prompt, topK, threshold, queryEmbedding, tools, relevantTools,
                  agentTools, turnOutcome, failedAt, turnStartTools, seenLog, turnNo,
                  line, callTool, callIds, tableBefore, provider, embedError,
                  queryIssued, databaseUrl, startupDone, lineText, config, loads,
                  modelInstance>>

\* handlePrompt(userID, prompt, pastTools, ...) is called and runs to
\* `await findRelevantTools(...)`.
TurnCall(p) ==
    /\ procs[p].pc = "idle"
    /\ \E q \in Prompts :
          procs' = [procs EXCEPT ![p] =
                       [IdleTurn EXCEPT !.pc = "finding", !.prompt = q,
                                        !.atCall = pastTools]]
    /\ UNCHANGED pastTools
    /\ UNCHANGED overlapFrame

\* findRelevantTools settles. On a result the call goes on without
\* suspension through getMultiple, the merge and the splice, to
\* `await createDynamicAgent(pastTools)`; on a rejection it throws.
TurnMerges(p) ==
    /\ procs[p].pc = "finding"
    /\ \/ /\ procs' = [procs EXCEPT ![p].pc = "threw"]
          /\ UNCHANGED pastTools
       \/ \E rows \in QueryResults(table, ModelEmbed(procs[p].prompt),
                                    config.defaultTopK,
                                    config.defaultSimilarityThreshold) :
             LET relevant == GetMultiple(registry, Ids(rows))
             IN  /\ pastTools' = MergeTools(MergeBase(pastTools, procs[p].atCall),
                                            relevant)
                 /\ procs' = [procs EXCEPT ![p] =
                                 [procs[p] EXCEPT !.pc = "agent",
                                                  !.tools = rows,
                                                  !.relevantTools = relevant]]
    /\ UNCHANGED overlapFrame

\* createDynamicAgent settles: the call awaits agent.generate, or throws.
TurnAgentSettles(p) ==
    /\ procs[p].pc = "agent"
    /\ \E ok \in BOOLEAN :
          procs' = [procs EXCEPT ![p].pc = IF ok THEN "generate" ELSE "threw"]
    /\ UNCHANGED pastTools
    /\ UNCHANGED overlapFrame

\* agent.generate settles: the call returns, or throws.
TurnGenerateSettles(p) ==
    /\ procs[p].pc = "generate"
    /\ \E ok \in BOOLEAN :
          procs' = [procs EXCEPT ![p].pc = IF ok THEN "done" ELSE "threw"]
    /\ UNCHANGED pastTools
    /\ UNCHANGED overlapFrame

OverlapNext ==
    \E p \in Procs :
        \/ TurnCall(p)
        \/ TurnMerges(p)
        \/ TurnAgentSettles(p)
        \/ TurnGenerateSettles(p)

OverlapSpec == OverlapInit /\ [][OverlapNext]_vars

----------------------------------------------------------------------------
(* Properties of the session's tools across turns *)

Range(s) == {s[n] : n \in 1..Len(s)}

\* The elements of s in the order of their first occurrence.
RECURSIVE FirstOccurrences(_)
FirstOccurrences(s) ==
    IF s = <<>>
    THEN <<>>
    ELSE LET front == SubSeq(s, 1, Len(s) - 1)
         IN  IF s[Len(s)] \in Range(front)
             THEN FirstOccurrences(front)
             ELSE Append(FirstOccurrences(front), s[Len(s)])

\* The last element of s with the given id.
LastWithId(s, i) ==
    s[CHOOSE n \in 1..Len(s) :
        s[n].id = i /\ \A m \in (n + 1)..Len(s) : s[m].id # i]

\* C1: after any sequence of turns of one session that started with no
\* tools, pastTools holds no two entries with the same tool id.
NoDuplicateIds ==
    \A m, n \in 1..Len(pastTools) : m # n => pastTools[m].id # pastTools[n].id

\* A second or later turn has merged tools of which one was already in the
\* session.
NoDuplicateIdsWitness ==
    /\ pc = "agent"
    /\ turnNo >= 2
    /\ turnStartTools # <<>>
    /\ \E t \in Range(relevantTools) : t.id \in Range(Ids(turnStartTools))

\* C2: a merge places every distinct id at the position of its first
\* occurrence in previous followed by incoming, and so the ids of pastTools
\* are, in order, the ids in the order in which each first appeared in the
\* session.
FirstAppearanceOrder ==
    /\ pc = "agent" =>
          Ids(pastTools) = FirstOccurrences(Ids(turnStartTools) \o Ids(relevantTools))
    /\ Ids(pastTools) = FirstOccurrences(seenLog)

\* A turn has merged an id the session already had, selected ahead of an
\* id that is new to the session.
FirstAppearanceOrderWitness ==
    /\ pc = "agent"
    /\ Len(turnStartTools) >= 1
    /\ Len(relevantTools) >= 2
    /\ relevantTools[1].id \in Range(Ids(turnStartTools))
    /\ relevantTools[2].id \notin Range(Ids(turnStartTools))
    /\ Len(pastTools) = Len(turnStartTools) + 1

\* C5: no eviction: no step of the process makes pastTools shorter, so the
\* number of tools after turn n+1 is at least the number after turn n.
NoEviction == [][Len(pastTools') >= Len(pastTools)]_vars

\* A turn that selected only tools the session did not have yet has been
\* merged into a session that already held a tool.
NoEvictionWitness ==
    /\ pc = "agent"
    /\ turnStartTools # <<>>
    /\ relevantTools # <<>>
    /\ \A t \in Range(relevantTools) : t.id \notin Range(Ids(turnStartTools))

\* C6: a turn that fails leaves pastTools as it was when the turn started.
FailedTurnLeavesToolsUnchanged ==
    turnOutcome = "failed" => pastTools = turnStartTools

\* C7: after a failed turn the prompt loop is still running, waiting for
\* the next line.
FailedTurnKeepsLoopRunning ==
    turnOutcome = "failed" => pc = "prompt" /\ exitCode = -1

----------------------------------------------------------------------------
(* Properties of the merge on arbitrary inputs *)

\* C3: when an id occurs more than once in previous followed by incoming,
\* the merged result has it at the position of its first occurrence with
\* the value of its last occurrence; previous = [A, B] and
\* incoming = [B', C] give [A, B', C].
MergeFirstPositionLastValue ==
    pc = "merged" =>
       LET all == turnStartTools \o relevantTools
           order == FirstOccurrences(Ids(all))
       IN  /\ pastTools = [n \in 1..Len(order) |-> LastWithId(all, order[n])]
           /\ (/\ turnStartTools = <<Tool(1, 1), Tool(2, 1)>>
               /\ relevantTools = <<Tool(2, 2), Tool(3, 1)>>)
              => pastTools = <<Tool(1, 1), Tool(2, 2), Tool(3, 1)>>

\* previous = [A, B], incoming = [B', C] with B' of B's id and other content.
MergeFirstPositionLastValueWitness ==
    /\ pc = "merged"
    /\ turnStartTools = <<Tool(1, 1), Tool(2, 1)>>
    /\ relevantTools = <<Tool(2, 2), Tool(3, 1)>>
    /\ pastTools = <<Tool(1, 1), Tool(2, 2), Tool(3, 1)>>

\* C4: the length of the merged result is the number of distinct tool ids
\* in previous and incoming together.
MergeLengthIsDistinctIds ==
    pc = "merged" =>
       Len(pastTools) =
          Cardinality(Range(Ids(turnStartTools)) \cup Range(Ids(relevantTools)))

\* Both inputs hold an id twice and share an id, with differing content.
MergeLengthIsDistinctIdsWitness ==
    /\ pc = "merged"
    /\ Len(turnStartTools) = 2
    /\ Len(relevantTools) = 2
    /\ turnStartTools[1].id = turnStartTools[2].id
    /\ turnStartTools[1] # turnStartTools[2]
    /\ relevantTools[1].id = turnStartTools[1].id
    /\ relevantTools[2].id # relevantTools[1].id
    /\ Len(pastTools) = 2

----------------------------------------------------------------------------
(* Properties of the index query *)

\* The similarity of the row of tool i to the prompt of the last query.
SimOf(i) == Similarity(table[i].embedding, ModelEmbed(prompt))

\* The tools whose rows lie above the threshold of the last query.
Above == {i \in ToolIds : table[i] # NoRec /\ SimOf(i) > threshold}

\* C8: the query keeps only rows whose similarity is strictly greater than
\* the threshold; a row whose similarity equals the threshold is never in
\* the result of findRelevantTools.
ThresholdExclusive ==
    pc = "found" =>
       /\ \A n \in 1..Len(tools) : tools[n].similarity > threshold
       /\ \A i \in ToolIds :
             (table[i] # NoRec /\ SimOf(i) = threshold) => i \notin Range(Ids(tools))

\* A query has returned fewer rows than topK while a row lies exactly at
\* the threshold, and another row lies above it.
ThresholdExclusiveWitness ==
    /\ pc = "found"
    /\ \E i \in ToolIds : table[i] # NoRec /\ SimOf(i) = threshold
    /\ tools # <<>>
    /\ Len(tools) < topK

EmptyIndexQueryReturnsEmpty ==
    (/\ pc \in {"found", "threw"}
     /\ prompt # 0
     /\ pool
     /\ failedAt \notin {"embedding", "query"}
     /\ \A i \in ToolIds : table[i] = NoRec)
    => (pc = "found" /\ tools = <<>>)

\* findRelevantTools has returned from a query on the table no tool was
\* ever registered in.
EmptyIndexQueryReturnsEmptyWitness ==
    /\ pc = "found"
    /\ pool
    /\ clock = 1
    /\ \A i \in ToolIds : table[i] = NoRec
    /\ tools = <<>>

----------------------------------------------------------------------------
(* The registry: C11, C12 *)

Registered(reg) == {i \in ToolIds : reg[i] # 0}

\* C11: getMultiple(ids) returns the descriptors of exactly those ids that
\* are registered, in the order the ids were given, leaves the unregistered
\* ids out and raises nothing; getMultiple([a, missing, b]) is [a, b].
GetMultipleKnownInOrder ==
    pc = "got" =>
        LET known == SelectSeq(callIds, LAMBDA i : i \in Registered(registry))
        IN  /\ Len(relevantTools) = Len(known)
            /\ \A n \in 1..Len(known) :
                  relevantTools[n] = Tool(known[n], registry[known[n]])
            /\ failedAt = ""
            /\ (/\ Len(callIds) = 3
                 /\ callIds[1] \in Registered(registry)
                 /\ callIds[2] \notin Registered(registry)
                 /\ callIds[3] \in Registered(registry))
               => Ids(relevantTools) = <<callIds[1], callIds[3]>>

\* getMultiple([a, missing, b]) has returned, a and b registered and
\* different.
GetMultipleKnownInOrderWitness ==
    /\ pc = "got"
    /\ Len(callIds) = 3
    /\ callIds[1] \in Registered(registry)
    /\ callIds[2] \notin Registered(registry)
    /\ callIds[3] \in Registered(registry) \ {callIds[1]}
    /\ Len(relevantTools) = 2

\* C12: register(tool) always succeeds; after it get(tool.id) is that
\* tool, the entries of the other ids are as before, and the registry holds
\* one entry for each id registered so far.
RegisterInsertsOrOverwrites ==
    [][(pc = "idle" /\ callTool' # Undefined) =>
          /\ pc' = "returned"
          /\ failedAt' = ""
          /\ RegistryGet(registry', callTool'.id) = callTool'
          /\ \A i \in ToolIds \ {callTool'.id} :
                RegistryGet(registry', i) = RegistryGet(registry, i)
          /\ Registered(registry') = Registered(registry) \cup {callTool'.id}]_vars

\* register has returned for a tool of the second content while another
\* id is registered too.
RegisterInsertsOrOverwritesWitness ==
    /\ pc = "returned"
    /\ callTool # Undefined
    /\ callTool.ver = 2
    /\ registry[callTool.id] = 2
    /\ Cardinality(Registered(registry)) >= 2

----------------------------------------------------------------------------
(* The upsert: C13, C14 *)

RowIds(tbl) == {i \in ToolIds : tbl[i] # NoRec}

\* The content columns of row all hold the content of tool.
RowHoldsContentOf(row, tool) ==
    /\ row.tool_name = tool.ver
    /\ row.description = tool.ver
    /\ row.keywords = tool.ver
    /\ row.parameters = tool.ver
    /\ row.tool_definition = tool.ver

\* registerToolInDatabase(callTool) has written its row and returned.
Upserted == pc = "returned" /\ callTool # Undefined /\ pool

\* C13: registering a tool id again with identical content leaves one
\* record for that id, with the vector it had; whatever is registered, the
\* table holds one record per registered id.
UpsertIdempotent ==
    Upserted =>
        /\ table[callTool.id] # NoRec
        /\ RowIds(table) = RowIds(tableBefore) \cup {callTool.id}
        /\ (/\ tableBefore[callTool.id] # NoRec
             /\ RowHoldsContentOf(tableBefore[callTool.id], callTool))
           => table[callTool.id].embedding = tableBefore[callTool.id].embedding

\* The tool registered was in the table already, with this content, and a
\* row of another id exists.
UpsertIdempotentWitness ==
    /\ Upserted
    /\ tableBefore[callTool.id] # NoRec
    /\ RowHoldsContentOf(tableBefore[callTool.id], callTool)
    /\ RowIds(table) # {callTool.id}

\* C14: registering an existing id with other content replaces tool_name,
\* description, keywords, parameters, tool_definition and embedding by the
\* new values, keeps the row's created_at and leaves the rows of the other
\* ids as they were.
UpsertReplacesAllButCreatedAt ==
    (/\ Upserted
     /\ tableBefore[callTool.id] # NoRec
     /\ ~RowHoldsContentOf(tableBefore[callTool.id], callTool))
    => /\ RowHoldsContentOf(table[callTool.id], callTool)
       /\ table[callTool.id].embedding = ModelEmbed(SearchableText(callTool))
       /\ table[callTool.id].created_at = tableBefore[callTool.id].created_at
       /\ \A j \in ToolIds \ {callTool.id} : table[j] = tableBefore[j]

\* The tool registered was in the table with other content and another
\* vector, written at an earlier time, next to a row of another id.
UpsertReplacesAllButCreatedAtWitness ==
    /\ Upserted
    /\ tableBefore[callTool.id] # NoRec
    /\ ~RowHoldsContentOf(tableBefore[callTool.id], callTool)
    /\ tableBefore[callTool.id].embedding # table[callTool.id].embedding
    /\ table[callTool.id].created_at < clock - 1
    /\ RowIds(table) # {callTool.id}

----------------------------------------------------------------------------
(* The turn's tool set: C15 *)

\* The descriptors the registry holds for ids, in the order of ids.
CatalogLookup(reg, ids) ==
    LET known == SelectSeq(ids, LAMBDA i : reg[i] # 0)
    IN  [n \in 1..Len(known) |-> Tool(known[n], reg[known[n]])]

\* previous and incoming merged by id: the position of an id's first
\* occurrence, the value of its last.
MergedById(previous, incoming) ==
    LET all == previous \o incoming
        ids == FirstOccurrences(Ids(all))
    IN  [n \in 1..Len(ids) |-> LastWithId(all, ids[n])]

\* C15: after a successful turn the session's tools are the merge of the
\* tools the turn started with and the registry's descriptors of the ids
\* the selection returned, and the agent was built with exactly these
\* tools; a turn that starts with [get_weather] and selects [send_email]
\* ends with [get_weather, send_email].
SuccessfulTurnMergesSelection ==
    turnOutcome = "ok" =>
        /\ pastTools = MergedById(turnStartTools, CatalogLookup(registry, Ids(tools)))
        /\ agentTools = pastTools
        /\ (/\ Len(turnStartTools) = 1
             /\ Len(relevantTools) = 1
             /\ turnStartTools[1].id # relevantTools[1].id)
           => pastTools = <<turnStartTools[1], relevantTools[1]>>

\* The second turn has succeeded; the first had selected one tool and the
\* second selected one other tool.
SuccessfulTurnMergesSelectionWitness ==
    /\ turnOutcome = "ok"
    /\ pc = "prompt"
    /\ turnNo = 2
    /\ Len(turnStartTools) = 1
    /\ Len(relevantTools) = 1
    /\ turnStartTools[1].id # relevantTools[1].id
    /\ Len(agentTools) = 2

----------------------------------------------------------------------------
(* The registry during turns: C16 *)

TurnPcs == {"embed", "query", "merge", "agent", "generate"}

\* C16: no step of a turn, and findRelevantTools in particular, changes the
\* registry, which is written during the startup registration only;
\* findRelevantTools leaves the session's tools unchanged too.
TurnsLeaveRegistryUnchanged ==
    [][/\ pc \in TurnPcs \cup {"prompt"} => registry' = registry
       /\ registry' # registry => pc = "setup"
       /\ pc \in {"embed", "query"} => pastTools' = pastTools]_vars

\* A turn has run to its end on a non-empty session, the selection held the
\* row of an id the registry has no entry for, and the registry holds the
\* demo tools and nothing else.
TurnsLeaveRegistryUnchangedWitness ==
    /\ turnOutcome = "ok"
    /\ turnStartTools # <<>>
    /\ Len(tools) > Len(relevantTools)
    /\ registry = [i \in ToolIds |-> IF i <= Len(demoTools) THEN 1 ELSE 0]

----------------------------------------------------------------------------
(* Embedding failures of a selection: C17 *)

FindEnded == pc \in {"found", "threw"} /\ prompt # 0

\* C17: findRelevantTools fails with the embedding-unavailable error when
\* no model is held and the lazy initialization yields none, and with the
\* empty-embedding error when the provider yields an empty batch; in both
\* cases no SELECT is sent to the store.
EmbeddingFailureIssuesNoQuery ==
    FindEnded =>
        /\ (~provider.held /\ provider.init \in {"threw", "none"})
           => /\ pc = "threw"
              /\ embedError \in {"init", "notInitialized"}
              /\ ~queryIssued
              /\ tools = <<>>
        /\ provider.next = "emptyBatch"
           => /\ pc = "threw"
              /\ embedError = "emptyBatch"
              /\ ~queryIssued
              /\ tools = <<>>

\* findRelevantTools was called with no model held, the initialization
\* yielded none, and the store was connected and held rows.
EmbeddingFailureIssuesNoQueryWitness ==
    /\ FindEnded
    /\ ~provider.held
    /\ provider.init = "none"
    /\ embedError = "notInitialized"
    /\ pool
    /\ \E i \in ToolIds : table[i] # NoRec

\* findRelevantTools was called with a model held, the provider yielded an
\* empty batch, and the store was connected and held rows.
EmptyBatchWitness ==
    /\ FindEnded
    /\ provider.held
    /\ provider.next = "emptyBatch"
    /\ pool
    /\ \E i \in ToolIds : table[i] # NoRec

----------------------------------------------------------------------------
(* Startup and the prompt loop: C18, C19, C20 *)

StartupOrder == <<"initializeEmbeddingModel", "initDatabase", "setupAllTools">>

\* C18: a failure of the embedding initialization, of the database
\* initialization or of the startup registration ends the process with no
\* line read and no turn served; the three calls return in this order, and
\* a line is read or a turn served only after all three have returned.
StartupFailureIsFatal ==
    /\ failedAt \in Range(StartupOrder)
       => pc = "exited" /\ exitCode = 1 /\ lineText = 0 /\ turnNo = 0
    /\ Len(startupDone) <= Len(StartupOrder)
    /\ startupDone = SubSeq(StartupOrder, 1, Len(startupDone))
    /\ (lineText # 0 \/ turnNo > 0)
       => /\ startupDone = StartupOrder
          /\ embeddingModel
          /\ pool
          /\ \A n \in 1..Len(demoTools) :
                /\ RegistryGet(registry, demoTools[n].id) = demoTools[n]
                /\ RowHoldsContentOf(table[demoTools[n].id], demoTools[n])

\* The registration of the second demo tool failed after both
\* initializations and the first registration, and the process has ended.
StartupFailureIsFatalWitness ==
    /\ pc = "exited"
    /\ failedAt = "setupAllTools"
    /\ startupDone = <<"initializeEmbeddingModel", "initDatabase">>
    /\ setupIdx = 2

\* C19: with DATABASE_URL missing the process ends with a configuration
\* error, and it reads no line and processes no turn before that.
MissingDatabaseUrlIsFatal ==
    ~databaseUrl =>
        /\ pc \notin TurnPcs \cup {"prompt"}
        /\ pc = "exited" => exitCode = 1 /\ failedAt = "config"
        /\ lineText = 0
        /\ turnNo = 0

\* The process has ended on the missing DATABASE_URL.
MissingDatabaseUrlIsFatalWitness ==
    /\ ~databaseUrl
    /\ pc = "exited"
    /\ failedAt = "config"

\* The lines of LineTable by what the loop is to do with them.
ExitLines == {6, 7, 8}
BlankLines == {9, 10}
QueryLines == Lines \ (ExitLines \cup BlankLines)

----------------------------------------------------------------------------
(* Scheduling of the turns of the session: C21 *)

\* C21: the turns of the session do not overlap: the loop reads a line or
\* starts a handlePrompt only when no handlePrompt is running.
TurnsDoNotOverlap ==
    [][(lineText' # lineText \/ line' # line \/ turnNo' # turnNo)
          => /\ pc = "prompt"
             /\ turnOutcome \in {"none", "ok"}]_vars

\* The second turn has started, on the tools the first turn left.
TurnsDoNotOverlapWitness ==
    /\ turnNo = 2
    /\ turnOutcome = "running"
    /\ pc = "embed"
    /\ turnStartTools # <<>>

----------------------------------------------------------------------------
(* The embedding model handle: C22, C30 *)

\* C22: a call of initializeEmbeddingModel or generateEmbedding that finds
\* a model held starts no load and leaves the held instance as it is, and
\* initializeEmbeddingModel then returns at once; a load is started only
\* by a call that finds no model.
InitializeIsIdempotent ==
    [][/\ \A p \in Procs :
            (procs[p].pc = "idle" /\ procs'[p].pc # "idle" /\ embeddingModel)
            => /\ loads' = loads
               /\ embeddingModel'
               /\ modelInstance' = modelInstance
               /\ procs'[p].load = 0
               /\ procs'[p].kind = "initialize" => procs'[p].pc = "done"
       /\ loads' # loads => ~embeddingModel]_vars

\* The model of the first load is held and a later initializeEmbeddingModel
\* has returned without loading.
InitializeIsIdempotentWitness ==
    /\ loads = 1
    /\ modelInstance = 1
    /\ \E p \in Procs :
          /\ procs[p].pc = "done"
          /\ procs[p].kind = "initialize"
          /\ procs[p].load = 0

\* C30: while a load is awaited no call starts another load, and a model
\* instance once assigned is not replaced.
ModelLoadedAtMostOnce ==
    [][/\ (\E q \in Procs : procs[q].pc = "loading") => loads' = loads
       /\ modelInstance # 0 => modelInstance' = modelInstance]_vars

----------------------------------------------------------------------------
(* Registration through the tool service: C29 *)

\* C29: when registerTool(tool) has completed without error the table
\* holds a row of tool.id, whether or not a pool was held when it was
\* called.
RegisterToolSuccessMeansIndexed ==
    (pc = "returned" /\ callTool # Undefined) => table[callTool.id] # NoRec

----------------------------------------------------------------------------
(* Growth of the session's tools: C26, C27 *)

\* C26: after a successful turn the ids the session had before the turn
\* are a prefix of its ids, and the ids new in the turn follow in the order
\* in which the query returned them.
TurnAppendsInQueryOrder ==
    turnOutcome = "ok" =>
        LET before == Ids(turnStartTools)
            after == Ids(pastTools)
        IN  /\ Len(before) <= Len(after)
            /\ SubSeq(after, 1, Len(before)) = before
            /\ SubSeq(after, Len(before) + 1, Len(after))
                 = SelectSeq(Ids(tools),
                             LAMBDA i : registry[i] # 0 /\ i \notin Range(before))

\* The second turn has succeeded: the session had one tool and the turn
\* added another one behind it.
TurnAppendsInQueryOrderWitness ==
    /\ turnOutcome = "ok"
    /\ turnNo = 2
    /\ Len(turnStartTools) = 1
    /\ Len(pastTools) = 2
    /\ pastTools[1] = turnStartTools[1]

\* A first turn has added two tools, the higher ranked one first, against
\* the order of their registration.
RankedOrderWitness ==
    /\ turnOutcome = "ok"
    /\ turnStartTools = <<>>
    /\ Len(pastTools) = 2
    /\ pastTools[1].id > pastTools[2].id

\* C27: every tool of the session, and every tool handed to the agent, is
\* the descriptor the registry holds under its id; an id the query returns
\* that has no registry entry enters neither.
SessionToolsAreRegistered ==
    /\ \A n \in 1..Len(pastTools) :
          pastTools[n] = RegistryGet(registry, pastTools[n].id)
    /\ \A n \in 1..Len(agentTools) :
          agentTools[n] = RegistryGet(registry, agentTools[n].id)
    /\ pc \in {"agent", "generate"} \/ turnOutcome = "ok"
       => \A n \in 1..Len(tools) :
             registry[tools[n].id] = 0
             => /\ tools[n].id \notin Range(Ids(pastTools))
                /\ tools[n].id \notin Range(Ids(agentTools))

\* The agent was built in a turn whose query returned the row of an id the
\* registry does not hold, ranked first, together with a registered one.
SessionToolsAreRegisteredWitness ==
    /\ pc = "generate"
    /\ Len(tools) >= 2
    /\ registry[tools[1].id] = 0
    /\ agentTools # <<>>

\* C28: a turn adds at most topK tools to the session, and a turn whose
\* query finds no row above the threshold leaves the session's tools as
\* they were.
TurnAddsAtMostTopK ==
    turnNo >= 1 =>
        /\ Len(pastTools) <= Len(turnStartTools) + topK
        /\ (pc \in {"merge", "agent", "generate"} \/ turnOutcome = "ok")
              /\ Above = {}
           => pastTools = turnStartTools

\* With topK = 1 two registered tools lay above the threshold, and the
\* turn has succeeded with one tool more than before.
TurnAddsAtMostTopKWitness ==
    /\ turnOutcome = "ok"
    /\ topK = 1
    /\ Cardinality({i \in Above : registry[i] # 0}) >= 2
    /\ Len(pastTools) = Len(turnStartTools) + 1

\* A turn has succeeded whose query found no row above the threshold, in
\* a session that had tools already.
NoMatchWitness ==
    /\ turnOutcome = "ok"
    /\ Above = {}
    /\ table # EmptyTable
    /\ turnStartTools # <<>>

----------------------------------------------------------------------------
(* Overlapping store calls: C24, C25 *)

\* A row without its created_at.
Content(r) == IF r = NoRec THEN NoRec ELSE [r EXCEPT !.created_at = 0]

ContentOf(tbl) == [i \in ToolIds |-> Content(tbl[i])]

\* The complete record of a caller's tool: every content column and the
\* embedding of its searchable text.
NewRecord(p) ==
    Rec(procs[p].tool.ver, ModelEmbed(SearchableText(procs[p].tool)), 0)

\* Every call has settled.
Settled == \A p \in Procs : procs[p].pc \in {"done", "threwEmbedding", "threwStore"}

\* The callers whose registration succeeded, and those among them of id i.
Writers == {p \in Procs : procs[p].kind = "register" /\ procs[p].pc = "done"}
WritersOf(i) == {p \in Writers : procs[p].tool.id = i}

Perms(S) ==
    {s \in [1..Cardinality(S) -> S] :
        \A m, n \in 1..Cardinality(S) : m # n => s[m] # s[n]}

\* The registrations of the callers in s made one after another.
RECURSIVE RegisterInOrder(_, _)
RegisterInOrder(tbl, s) ==
    IF s = <<>> THEN tbl
    ELSE RegisterInOrder(Upsert(tbl, procs[Head(s)].tool,
                                ModelEmbed(SearchableText(procs[Head(s)].tool)), 0),
                         Tail(s))

\* C24: when overlapping registrations have settled, registrations of
\* distinct ids leave the table that registering them one after another
\* in any order leaves (created_at aside), and the row of an id written by
\* several callers is, in every column, the record of the one whose
\* statement ran last; rows no caller wrote are as before.
ConcurrentRegistrationLastWriterWins ==
    Settled =>
        /\ (\A p, q \in Writers : p # q => procs[p].tool.id # procs[q].tool.id)
           => \A s \in Perms(Writers) :
                 ContentOf(table) = ContentOf(RegisterInOrder(tableBefore, s))
        /\ \A i \in ToolIds :
              IF WritersOf(i) = {}
              THEN table[i] = tableBefore[i]
              ELSE \E p \in WritersOf(i) :
                      /\ \A q \in WritersOf(i) : procs[q].at <= procs[p].at
                      /\ Content(table[i]) = NewRecord(p)

\* Two registrations of one id with different contents overlapped, on a
\* table that held the id, and both succeeded.
ConcurrentRegistrationLastWriterWinsWitness ==
    /\ Settled
    /\ \E p, q \in Writers :
          /\ p # q
          /\ procs[p].tool.id = procs[q].tool.id
          /\ procs[p].tool.ver # procs[q].tool.ver
          /\ tableBefore[procs[p].tool.id] # NoRec
          /\ procs[p].at < procs[q].at

\* Two registrations of different ids overlapped and both succeeded, the
\* one called later writing first.
DistinctIdsWitness ==
    /\ Settled
    /\ \E p, q \in Writers :
          /\ p < q
          /\ procs[p].tool.id # procs[q].tool.id
          /\ procs[q].at < procs[p].at

\* C25: every row of the table, and every row a query observes, is a
\* complete record: the row as it was before the calls or the whole record
\* of a registration that succeeded before the query ran. A registration
\* that failed is in no row.
UpsertIsAtomic ==
    /\ \A i \in ToolIds :
          \/ table[i] = tableBefore[i]
          \/ \E w \in WritersOf(i) : Content(table[i]) = NewRecord(w)
    /\ \A r \in Procs :
          procs[r].kind = "find" /\ procs[r].pc = "done"
          => \A i \in ToolIds :
                \/ procs[r].seen[i] = tableBefore[i]
                \/ \E w \in WritersOf(i) :
                      /\ procs[w].at < procs[r].at
                      /\ Content(procs[r].seen[i]) = NewRecord(w)

\* A query ran after a registration had failed in the store, the failed
\* registration carrying new content for an id the table held.
UpsertIsAtomicWitness ==
    \E r, f \in Procs :
        /\ procs[r].kind = "find"
        /\ procs[r].pc = "done"
        /\ procs[f].kind = "register"
        /\ procs[f].pc = "threwStore"
        /\ procs[f].at < procs[r].at
        /\ tableBefore[procs[f].tool.id] # NoRec
        /\ tableBefore[procs[f].tool.id].tool_name # procs[f].tool.ver

\* A query ran while a registration with new content for a held id was
\* waiting for its statement to run.
ConcurrentReadWitness ==
    \E r, w \in Procs :
        /\ procs[r].kind = "find"
        /\ procs[r].pc = "done"
        /\ procs[w].kind = "register"
        /\ procs[w].pc = "statement"
        /\ tableBefore[procs[w].tool.id] # NoRec
        /\ tableBefore[procs[w].tool.id].tool_name # procs[w].tool.ver

----------------------------------------------------------------------------
(* Overlapping turns of one session: C23 *)

\* Two calls that were both made before either had merged, each of which
\* selected a tool the other did not, have both completed.
OverlappedAndCompleted(p, q) ==
    /\ p # q
    /\ procs[p].pc = "done"
    /\ procs[q].pc = "done"
    /\ procs[p].atCall = <<>>
    /\ procs[q].atCall = <<>>
    /\ Range(Ids(procs[p].relevantTools)) \ Range(Ids(procs[q].relevantTools)) # {}
    /\ Range(Ids(procs[q].relevantTools)) \ Range(Ids(procs[p].relevantTools)) # {}

\* C23, as stated: when two overlapping turns of one session have both
\* completed, a tool selected by one of them is missing from the session's
\* tools.
OverlappingTurnsLoseATool ==
    \A p, q \in Procs :
        OverlappedAndCompleted(p, q)
        => \E r \in {p, q} :
              Range(Ids(procs[r].relevantTools)) \ Range(Ids(pastTools)) # {}

\* C23, amended: from its merge on, every tool a call selected is in the
\* session's tools, whatever the calls of the session that overlap it do;
\* no selection is lost.
OverlappingTurnsKeepSelections ==
    \A p \in Procs :
        procs[p].pc \in {"agent", "generate", "done"}
        => Range(Ids(procs[p].relevantTools)) \subseteq Range(Ids(pastTools))

\* Two overlapping turns with different selections have both completed.
OverlappingTurnsKeepSelectionsWitness ==
    \E p, q \in Procs : OverlappedAndCompleted(p, q)

====
